---------------------------- MODULE Spec2Model ----------------------------
(***************************************************************************)
(* A model of the taxonomy-aware aggregation engine of                     *)
(* MothurAmpliconTablePlot: pylib/taxonomy.py (taxon and lineage parsing,  *)
(* name disambiguation), pylib/shared_table.py (tagged tables, row         *)
(* normalisation, column sorting, grouping by taxonomy) and the abundance  *)
(* command line get_mothur_taxonomy_abundance.py.                          *)
(*                                                                         *)
(* A Python str is a sequence of one-character strings, so that parsing    *)
(* and formatting are computed character by character.  A float is the     *)
(* float64 value itself, and its arithmetic rounds as float64 does.        *)
(***************************************************************************)
EXTENDS Integers, Sequences, FiniteSets, TLC

VARIABLES
    s,          \* lineage spec: the str given to MothurLineage.from_str
    lineage,    \* lineage spec: the MothurLineage built from s
    pc,         \* which call has been made last ("start" before any)
    ret,        \* the value the last call returned
    exc,        \* the exception the last call raised, "none" if it returned
    op,         \* the last call's arguments
    taxon,      \* taxon spec: one MothurTaxonomy object
    calls,      \* taxon spec: arguments of the set_unique_taxon_name calls so far
    self,       \* table spec: the MothurSharedTable the methods are called on
    otu_tax_dict,   \* table spec: the MothurOtuTaxonomyDict
    next_id,    \* table spec: the first identity no object has yet
    steps,      \* table spec: number of calls made
    reordered   \* reorder spec: the outcome of group_by_taxonomy on the table
                \* with its columns in another order

vars == <<s, lineage, pc, ret, exc, op, taxon, calls,
          self, otu_tax_dict, next_id, steps, reordered>>

(***************************************************************************)
(* Bounds of the model.                                                    *)
(***************************************************************************)
MaxSegs == 3        \* segments of a lineage string
MaxCalls == 3       \* set_unique_taxon_name calls on one taxon
MaxOps == 1         \* method calls made one after the other on the count table

(***************************************************************************)
(* str helpers                                                             *)
(***************************************************************************)
Str_uncultured == <<"u", "n", "c", "u", "l", "t", "u", "r", "e", "d">>
Str_unknown == <<"u", "n", "k", "n", "o", "w", "n">>
Str_empty == <<>>

\* the value None, and the missing attribute _uniq_name
None == <<"<None>">>

NoValue == [none |-> TRUE]

DigitChars == <<"0", "1", "2", "3", "4", "5", "6", "7", "8", "9">>

IsDigit(c) == \E d \in 1..Len(DigitChars) : DigitChars[d] = c

DigitValue(c) == (CHOOSE d \in 1..Len(DigitChars) : DigitChars[d] = c) - 1

\* str.startswith
startswith(str, prefix) ==
    /\ Len(str) >= Len(prefix)
    /\ SubSeq(str, 1, Len(prefix)) = prefix

\* str.rstrip(ch): every trailing ch is removed
RECURSIVE rstrip(_, _)
rstrip(str, ch) ==
    IF str # <<>> /\ str[Len(str)] = ch
    THEN rstrip(SubSeq(str, 1, Len(str) - 1), ch)
    ELSE str

\* str.split(sep) for a one-character sep: "" splits into [""]
RECURSIVE split(_, _)
split(str, sep) ==
    IF \E i \in 1..Len(str) : str[i] = sep
    THEN LET i == CHOOSE k \in 1..Len(str) :
                    /\ str[k] = sep
                    /\ \A j \in 1..(k - 1) : str[j] # sep
         IN  <<SubSeq(str, 1, i - 1)>> \o split(SubSeq(str, i + 1, Len(str)), sep)
    ELSE <<str>>

\* sep.join(parts)
RECURSIVE join(_, _)
join(sep, parts) ==
    IF parts = <<>> THEN <<>>
    ELSE IF Len(parts) = 1 THEN parts[1]
    ELSE parts[1] \o sep \o join(sep, Tail(parts))

\* int(digits) for a str of decimal digits
RECURSIVE int(_)
int(digits) ==
    IF digits = <<>> THEN 0
    ELSE int(SubSeq(digits, 1, Len(digits) - 1)) * 10
            + DigitValue(digits[Len(digits)])

\* "%u" % n for n >= 0
RECURSIVE FormatU(_)
FormatU(n) ==
    IF n < 10 THEN <<DigitChars[n + 1]>>
    ELSE FormatU(n \div 10) \o <<DigitChars[(n % 10) + 1]>>

Returned(v) == [exc |-> "none", val |-> v]

Raised(e) == [exc |-> e, val |-> NoValue]

(***************************************************************************)
(* class MothurTaxonomy                                                    *)
(***************************************************************************)
\* TAX_REGEX = ^(.*)\((\d+)\)$ : the str ends in "(" digits ")" with at least
\* one digit; group 1 is what precedes that "(" and group 2 the digits.
TAX_REGEX_open(str) ==
    {i \in 1..(Len(str) - 2) :
        /\ str[i] = "("
        /\ \A j \in (i + 1)..(Len(str) - 1) : IsDigit(str[j])}

TAX_REGEX_match(str) ==
    /\ Len(str) >= 3
    /\ str[Len(str)] = ")"
    /\ TAX_REGEX_open(str) # {}

TAX_REGEX_group(str, g) ==
    LET i == CHOOSE k \in TAX_REGEX_open(str) : TRUE
    IN  IF g = 1 THEN SubSeq(str, 1, i - 1)
        ELSE SubSeq(str, i + 1, Len(str) - 1)

\* __init__: _uniq_name is not an attribute of a new object
MothurTaxonomy(taxon_name, bootstrap) ==
    [taxon_name |-> taxon_name, bootstrap |-> bootstrap, _uniq_name |-> None]

\* getattr(self, "_uniq_name", None) or self.taxon_name
unique_taxon_name(t) ==
    IF t._uniq_name # None /\ t._uniq_name # Str_empty
    THEN t._uniq_name
    ELSE t.taxon_name

set_unique_taxon_name_once(t, str) ==
    IF t._uniq_name = None THEN [t EXCEPT !._uniq_name = str] ELSE t

set_unique_taxon_name(t, str) == [t EXCEPT !._uniq_name = str]

is_empty_taxon(t) == t.taxon_name = Str_empty

\* truth value of "taxon" where taxon is a MothurTaxonomy or None
taxon_bool(t) == IF t = NoValue THEN FALSE ELSE ~is_empty_taxon(t)

MothurTaxonomy_from_str(str) ==
    IF str = Str_empty THEN Returned(MothurTaxonomy(Str_empty, 0))
    ELSE IF ~TAX_REGEX_match(str) THEN Raised("ValueError")
    ELSE Returned(MothurTaxonomy(TAX_REGEX_group(str, 1),
                                 int(TAX_REGEX_group(str, 2))))

MothurTaxonomy_to_str_unique(t) ==
    unique_taxon_name(t) \o <<"(">> \o FormatU(t.bootstrap) \o <<")">>

\* "%s(%u)" % (self.taxon_name, self.bootstrap)
MothurTaxonomy_to_str(t) ==
    t.taxon_name \o <<"(">> \o FormatU(t.bootstrap) \o <<")">>

(***************************************************************************)
(* class MothurLineage: a list of MothurTaxonomy                           *)
(***************************************************************************)
RANK == << <<"k", "i", "n", "g", "d", "o", "m">>,
           <<"p", "h", "y", "l", "u", "m">>,
           <<"c", "l", "a", "s", "s">>,
           <<"o", "r", "d", "e", "r">>,
           <<"f", "a", "m", "i", "l", "y">>,
           <<"g", "e", "n", "u", "s">>,
           <<"s", "p", "e", "c", "i", "e", "s">> >>

\* RANK_ID[v] for v in RANK; ids count from 0
RANK_ID(rank_name) == (CHOOSE i \in 1..Len(RANK) : RANK[i] = rank_name) - 1

InRANK_ID(rank_name) == \E i \in 1..Len(RANK) : RANK[i] = rank_name

depth(l) == Len(l)

\* list.__getitem__(rank_id) if rank_id < self.depth else None   (rank_id >= 0)
_get_by_id(l, rank_id) ==
    IF rank_id < depth(l)
    THEN IF rank_id + 1 \in 1..Len(l) THEN Returned(l[rank_id + 1])
         ELSE Raised("IndexError")
    ELSE Returned(NoValue)

_get_by_name_one_based(l, rank_name) ==
    IF ~InRANK_ID(rank_name) THEN Raised("ValueError")
    ELSE _get_by_id(l, RANK_ID(rank_name) + 1)

\* self._get_by_id(self.RANK_ID[rank_name]), ValueError for an unknown name
_get_by_name(l, rank_name) ==
    IF ~InRANK_ID(rank_name) THEN Raised("ValueError")
    ELSE _get_by_id(l, RANK_ID(rank_name))

\* a rank argument is an int, a str or an object of another type
IntRank(n) == [type |-> "int", id |-> n]

StrRank(str) == [type |-> "str", name |-> str]

get_taxon_by_rank(l, rank) ==
    IF rank.type = "int" THEN _get_by_id(l, rank.id)
    ELSE IF rank.type = "str" THEN _get_by_name(l, rank.name)
    ELSE Raised("IndexError")

\* truth value of a str or None
str_bool(str) == str # None /\ str # Str_empty

uniq_name_parent_rank(_last_known, _from) ==
    IF str_bool(_last_known)
    THEN _last_known \o <<"_">> \o RANK[_from]
    ELSE Str_unknown

\* (_last_known + "_" + self.RANK[_from]) if _last_known else "unknown"
uniq_name(_last_known, _from) ==
    IF str_bool(_last_known)
    THEN _last_known \o <<"_">> \o RANK[_from + 1]
    ELSE Str_unknown

RECURSIVE set_unique_taxon_names_suffix(_, _, _)
set_unique_taxon_names_suffix(l, _from, _last_known) ==
    LET got == get_taxon_by_rank(l, IntRank(_from))
    IN  IF got.exc # "none" THEN Raised(got.exc)
        ELSE IF ~taxon_bool(got.val) THEN Returned(l)
        ELSE IF startswith(got.val.taxon_name, Str_uncultured)
        THEN IF (_from + 1) \notin 1..Len(RANK)
             THEN Raised("IndexError")
             ELSE set_unique_taxon_names_suffix(
                     [l EXCEPT ![_from + 1] =
                         set_unique_taxon_name(@,
                            unique_taxon_name(@) \o <<"_">> \o RANK[_from + 1])],
                     _from + 1, _last_known)
        ELSE set_unique_taxon_names_suffix(l, _from + 1, got.val.taxon_name)

\* the recursion of set_unique_taxon_names; returns the lineage with the
\* _uniq_name attributes it has set
RECURSIVE set_unique_taxon_names(_, _, _)
set_unique_taxon_names(l, _from, _last_known) ==
    LET got == get_taxon_by_rank(l, IntRank(_from))
    IN  IF got.exc # "none" THEN Raised(got.exc)
        ELSE IF ~taxon_bool(got.val) THEN Returned(l)
        ELSE IF startswith(got.val.taxon_name, Str_uncultured)
        THEN IF str_bool(_last_known) /\ (_from + 1) \notin 1..Len(RANK)
             THEN Raised("IndexError")
             ELSE set_unique_taxon_names(
                     [l EXCEPT ![_from + 1] =
                         set_unique_taxon_name(@, uniq_name(_last_known, _from))],
                     _from + 1, _last_known)
        ELSE set_unique_taxon_names(l, _from + 1, got.val.taxon_name)

\* [MothurTaxonomy.from_str(s) for s in sp]: the first failure ends it
RECURSIVE ParseAll(_)
ParseAll(sp) ==
    IF sp = <<>> THEN Returned(<<>>)
    ELSE LET head == MothurTaxonomy_from_str(sp[1])
         IN  IF head.exc # "none" THEN Raised(head.exc)
             ELSE LET rest == ParseAll(Tail(sp))
                  IN  IF rest.exc # "none" THEN Raised(rest.exc)
                      ELSE Returned(<<head.val>> \o rest.val)

MothurLineage_from_str(str) ==
    LET sp == split(rstrip(str, ";"), ";")
        new == ParseAll(sp)
    IN  IF new.exc # "none" THEN Raised(new.exc)
        ELSE set_unique_taxon_names(new.val, 0, None)

MothurLineage_to_str(l) ==
    join(<<";">>, [i \in 1..Len(l) |-> MothurTaxonomy_to_str(l[i])]) \o <<";">>


(***************************************************************************)
(* class MothurOtuTaxonomy and MothurOtuTaxonomyDict                       *)
(***************************************************************************)
MothurOtuTaxonomy(otu_name, size, taxonomy) ==
    [otu_name |-> otu_name, size |-> size, taxonomy |-> taxonomy]

(***************************************************************************)
(* numpy: a cell of dtype int is <<n, 1>>.  A cell of dtype float64 is the *)
(* double itself: <<0, 0, 0>> for 0.0 and <<hi, lo, e>> for the positive   *)
(* double (hi * 2^28 + lo) * 2^e, whose 53-bit mantissa is kept in two     *)
(* parts, 2^24 <= hi < 2^25 and lo < 2^28; <<0, 0>> is NaN.  The cells of  *)
(* a count table are not negative.  The data of a table is a sequence of   *)
(* rows, each a sequence of cells.                                         *)
(***************************************************************************)
NaN == <<0, 0>>

IsNaN(x) == x = NaN

Number(n) == <<n, 1>>

IsInt(x) == Len(x) = 2 /\ x[2] = 1

Zero == <<0, 0, 0>>

\* the number of bits of n > 0
RECURSIVE BitLen(_)
BitLen(n) == IF n < 2 THEN 1 ELSE 1 + BitLen(n \div 2)

\* the double an int 0 <= n < 2^25 converts to
FromInt(n) ==
    IF n = 0 THEN Zero ELSE <<n * 2^(25 - BitLen(n)), 0, BitLen(n) - 53>>

ToFloat(x) == IF IsInt(x) THEN FromInt(x[1]) ELSE x

\* the sticky bit: a lost non-zero part makes the last bit kept 1
Sticky(L, lost) == IF lost /\ L % 2 = 0 THEN L + 1 ELSE L

\* round to nearest, ties to even: the double nearest to (H * 2^28 + L) * 2^e
\* for a 56-bit H * 2^28 + L, 2^27 <= H < 2^28, whose last bit is sticky
Round56(H, L, e) ==
    LET grs == L % 8
        lo == (L \div 8) + (H % 8) * 2^25
        hi == H \div 8
        up == grs > 4 \/ (grs = 4 /\ lo % 2 = 1)
    IN  IF ~up THEN <<hi, lo, e + 3>>
        ELSE IF lo + 1 < 2^28 THEN <<hi, lo + 1, e + 3>>
        ELSE IF hi + 1 < 2^25 THEN <<hi + 1, 0, e + 3>>
        ELSE <<2^24, 0, e + 4>>

\* H * 2^28 + L shifted right by d bits, what is lost kept in the sticky bit
ShiftRightSticky(H, L, d) ==
    IF d = 0 THEN <<H, L>>
    ELSE IF d < 28
    THEN <<H \div 2^d,
           Sticky((L \div 2^d) + (H % 2^d) * 2^(28 - d), L % 2^d # 0)>>
    ELSE IF d < 56
    THEN <<0, Sticky(H \div 2^(d - 28), L # 0 \/ H % 2^(d - 28) # 0)>>
    ELSE <<0, 1>>

\* x + y for doubles x, y >= 0: the exact sum, rounded
fadd(x, y) ==
    IF x = Zero THEN y
    ELSE IF y = Zero THEN x
    ELSE LET a == IF x[3] >= y[3] THEN x ELSE y
             b == IF x[3] >= y[3] THEN y ELSE x
             HA == a[1] * 8 + a[2] \div 2^25
             LA == (a[2] % 2^25) * 8
             B == ShiftRightSticky(b[1] * 8 + b[2] \div 2^25,
                                   (b[2] % 2^25) * 8, a[3] - b[3])
             L1 == LA + B[2]
             H1 == HA + B[1] + L1 \div 2^28
             L2 == L1 % 2^28
         IN  IF H1 >= 2^28
             THEN Round56(H1 \div 2,
                          Sticky((L2 \div 2) + (H1 % 2) * 2^27, L2 % 2 = 1),
                          a[3] - 2)
             ELSE Round56(H1, L2, a[3] - 3)

\* the next n bits of the quotient of R by D, R < D both <<hi, lo>>, and the
\* remainder: long division
RECURSIVE DivBits(_, _, _, _)
DivBits(R, D, n, acc) ==
    IF n = 0 THEN <<acc, R>>
    ELSE LET lo2 == 2 * R[2]
             R2 == <<2 * R[1] + lo2 \div 2^28, lo2 % 2^28>>
             ge == R2[1] > D[1] \/ (R2[1] = D[1] /\ R2[2] >= D[2])
             sub == IF R2[2] >= D[2] THEN <<R2[1] - D[1], R2[2] - D[2]>>
                    ELSE <<R2[1] - D[1] - 1, R2[2] + 2^28 - D[2]>>
         IN  IF ge THEN DivBits(sub, D, n - 1, 2 * acc + 1)
             ELSE DivBits(R2, D, n - 1, 2 * acc)

\* x / y for doubles x, y > 0: the exact quotient, rounded
fdiv(x, y) ==
    IF y[1] = 2^24 /\ y[2] = 0 THEN <<x[1], x[2], x[3] - y[3] - 52>>
    ELSE LET D == <<y[1], y[2]>>
             ge == x[1] > y[1] \/ (x[1] = y[1] /\ x[2] >= y[2])
             R0 == IF ~ge THEN <<x[1], x[2]>>
                   ELSE IF x[2] >= y[2] THEN <<x[1] - y[1], x[2] - y[2]>>
                   ELSE <<x[1] - y[1] - 1, x[2] + 2^28 - y[2]>>
             top == IF ge THEN DivBits(R0, D, 27, 1) ELSE DivBits(R0, D, 28, 0)
             low == DivBits(top[2], D, 28, 0)
         IN  Round56(top[1], Sticky(low[1], low[2] # <<0, 0>>),
                     x[3] - y[3] - (IF ge THEN 55 ELSE 56))

\* the next k bits of the quotient of r by b, r < b < 2^16, and the remainder
Chunk(r, b, k) == <<(r * 2^k) \div b, (r * 2^k) % b>>

\* the least t with a * 2^t >= b, for 0 < a <= b
RECURSIVE Scale(_, _)
Scale(a, b) == IF a >= b THEN 0 ELSE 1 + Scale(2 * a, b)

\* a / b for ints 0 < a <= b < 2^16: the exact quotient, rounded
idiv(a, b) ==
    LET t == Scale(a, b)
        c1 == Chunk(a * 2^t - b, b, 13)
        c2 == Chunk(c1[2], b, 14)
        c3 == Chunk(c2[2], b, 14)
        c4 == Chunk(c3[2], b, 14)
    IN  Round56(2^27 + c1[1] * 2^14 + c2[1],
                Sticky(c3[1] * 2^14 + c4[1], c4[2] # 0), 0 - 55 - t)

\* x + y: ints add to an int, and an int added to a double is converted
add(x, y) ==
    IF IsNaN(x) \/ IsNaN(y) THEN NaN
    ELSE IF IsInt(x) /\ IsInt(y) THEN Number(x[1] + y[1])
    ELSE fadd(ToFloat(x), ToFloat(y))

\* x / y (true division, the result is a double); the cells are not
\* negative, so a zero sum has only zero terms and a division by zero is 0 / 0
true_divide(x, y) ==
    IF IsNaN(x) \/ IsNaN(y) \/ ToFloat(y) = Zero THEN NaN
    ELSE IF ToFloat(x) = Zero THEN Zero
    ELSE IF IsInt(x) /\ IsInt(y) /\ x[1] <= y[1] /\ y[1] < 2^16
    THEN idiv(x[1], y[1])
    ELSE fdiv(ToFloat(x), ToFloat(y))

\* x < y for doubles x, y >= 0
fless(x, y) ==
    IF y = Zero THEN FALSE
    ELSE IF x = Zero THEN TRUE
    ELSE \/ x[3] < y[3]
         \/ x[3] = y[3] /\ x[1] < y[1]
         \/ x[3] = y[3] /\ x[1] = y[1] /\ x[2] < y[2]

\* the order numpy sorts by: NaN after every number
less(x, y) ==
    /\ ~IsNaN(x)
    /\ \/ IsNaN(y)
       \/ IF IsInt(x) /\ IsInt(y) THEN x[1] < y[1]
          ELSE fless(ToFloat(x), ToFloat(y))

RECURSIVE sum(_)
sum(v) == IF v = <<>> THEN Number(0) ELSE add(sum(SubSeq(v, 1, Len(v) - 1)), v[Len(v)])

column(data, j) == [i \in 1..Len(data) |-> data[i][j]]

\* data.shape[1]
ncols(data) == IF data = <<>> THEN 0 ELSE Len(data[1])

\* data.mean(axis = 0)
mean_axis0(data) ==
    [j \in 1..ncols(data) |-> true_divide(sum(column(data, j)), Number(Len(data)))]

IndexArrays(n) ==
    {p \in [1..n -> 1..n] : \A i, j \in 1..n : i # j => p[i] # p[j]}

\* v.argsort(): an index array that puts v in ascending order.  The default
\* kind is not stable, so every order of equal elements is an outcome.
argsort(v) ==
    {p \in IndexArrays(Len(v)) :
        \A i, j \in 1..Len(v) : i < j => ~less(v[p[j]], v[p[i]])}

flip(p) == [i \in 1..Len(p) |-> p[Len(p) + 1 - i]]

\* a[idx] and data[:, idx]
take(a, idx) == [i \in 1..Len(idx) |-> a[idx[i]]]

take_columns(data, idx) == [i \in 1..Len(data) |-> take(data[i], idx)]

(***************************************************************************)
(* class TaggedTable.  A table object has an identity, and so have the     *)
(* arrays its attributes refer to.                                         *)
(***************************************************************************)
\* __init__: the shape checks, then the attributes
TaggedTable(cls, id, row_tag, row_tag_id, col_tag, col_tag_id, data, data_id) ==
    IF Len(row_tag) # Len(data) THEN Raised("ValueError")
    ELSE IF data = <<>> THEN Raised("IndexError")
    ELSE IF Len(col_tag) # Len(data[1]) THEN Raised("ValueError")
    ELSE Returned([cls |-> cls, id |-> id,
                   row_tag |-> row_tag, row_tag_id |-> row_tag_id,
                   col_tag |-> col_tag, col_tag_id |-> col_tag_id,
                   data |-> data, data_id |-> data_id])

\* copy.deepcopy(self): a new object with new arrays; n is the first unused
\* identity
deepcopy(t, n) ==
    [t EXCEPT !.id = n, !.row_tag_id = n + 1, !.col_tag_id = n + 2,
              !.data_id = n + 3]

normalize_rows_no_copy(t, inplace, n) ==
    [t EXCEPT
        !.data = [i \in 1..Len(t.data) |->
                    [j \in 1..Len(t.data[i]) |->
                        true_divide(t.data[i][j], sum(t.data[i]))]],
        !.data_id = n + 4]

\* ret = self if inplace else copy.deepcopy(self); ret.data = ret.data / sums
normalize_rows(t, inplace, n) ==
    LET r == IF inplace THEN t ELSE deepcopy(t, n)
    IN  [r EXCEPT
            !.data = [i \in 1..Len(r.data) |->
                        [j \in 1..Len(r.data[i]) |->
                            true_divide(r.data[i][j], sum(r.data[i]))]],
            !.data_id = n + 4]

by_average_index_ascending(data) ==
    {Returned(p) : p \in argsort(mean_axis0(data))}

\* method "by_average": numpy.flip(data.mean(axis = 0).argsort())
by_average_index(data) ==
    {Returned(flip(p)) : p \in argsort(mean_axis0(data))}

\* the outcomes of _get_sorted_index: for "by_rank" the first turn of the loop
\* over the rows evaluates len(ncol), ncol an int, which raises TypeError
_get_sorted_index(data, method) ==
    IF method = "by_average" THEN by_average_index(data)
    ELSE IF method = "by_rank"
    THEN IF Len(data) >= 1 THEN {Raised("TypeError")}
         ELSE by_average_index(data)
    ELSE {Raised("ValueError")}

\* the outcomes of sort_cols_descend: the exception, or the table returned
sort_cols_descend(t, method, inplace, n) ==
    LET r == IF inplace THEN t ELSE deepcopy(t, n)
    IN  {IF i.exc # "none" THEN Raised(i.exc)
         ELSE Returned([r EXCEPT !.col_tag = take(r.col_tag, i.val),
                                 !.col_tag_id = n + 4,
                                 !.data = take_columns(r.data, i.val),
                                 !.data_id = n + 5])
         : i \in _get_sorted_index(r.data, method)}

(***************************************************************************)
(* class MothurSharedTable                                                 *)
(***************************************************************************)
\* __init__: the shape checks, TaggedTable.__init__ with row_tag = group and
\* col_tag = otu, then the attributes label and num_otus
MothurSharedTable(id, label, group, num_otus, otu, data) ==
    IF ~(Len(label) = Len(group) /\ Len(group) = Len(num_otus)
            /\ Len(num_otus) = Len(data))
    THEN Raised("ValueError")
    ELSE IF data = <<>> THEN Raised("IndexError")
    ELSE IF Len(otu) # Len(data[1]) THEN Raised("ValueError")
    ELSE LET base == TaggedTable("MothurSharedTable", id, group, id + 1,
                                 otu, id + 2, data, id + 3)
         IN  IF base.exc # "none" THEN Raised(base.exc)
             ELSE Returned([cls |-> base.val.cls, id |-> base.val.id,
                     row_tag |-> base.val.row_tag,
                     row_tag_id |-> base.val.row_tag_id,
                     col_tag |-> base.val.col_tag,
                     col_tag_id |-> base.val.col_tag_id,
                     data |-> base.val.data, data_id |-> base.val.data_id,
                     label |-> label, num_otus |-> num_otus])

dict_get_default(otu_tax, o) ==
    IF o \notin DOMAIN otu_tax THEN Returned(MothurOtuTaxonomy(o, 0, <<>>))
    ELSE Returned(otu_tax[o])

\* otu_tax_dict[o]
dict_getitem(otu_tax, o) ==
    IF o \notin DOMAIN otu_tax THEN Raised("KeyError")
    ELSE Returned(otu_tax[o])

\* the position of key in keys, 0 if it is not there
IndexOf(keys, key) ==
    IF \E k \in 1..Len(keys) : keys[k] = key
    THEN CHOOSE k \in 1..Len(keys) : keys[k] = key
    ELSE 0

accumulate_overwrite(tax_data, key, vec) ==
    LET k == IndexOf(tax_data.keys, key)
    IN  IF k = 0
        THEN [keys |-> Append(tax_data.keys, key),
              vals |-> Append(tax_data.vals, vec)]
        ELSE [tax_data EXCEPT !.vals[k] = vec]

accumulate_keep_first(tax_data, key, vec) ==
    LET k == IndexOf(tax_data.keys, key)
    IN  IF k = 0
        THEN [keys |-> Append(tax_data.keys, key),
              vals |-> Append(tax_data.vals, vec)]
        ELSE tax_data

\* tax_data[key] += vec, tax_data a defaultdict of zero vectors kept as
\* [keys, vals] in insertion order
accumulate(tax_data, key, vec) ==
    LET k == IndexOf(tax_data.keys, key)
    IN  IF k = 0
        THEN [keys |-> Append(tax_data.keys, key),
              vals |-> Append(tax_data.vals,
                              [i \in 1..Len(vec) |-> add(Number(0), vec[i])])]
        ELSE [tax_data EXCEPT
                !.vals[k] = [i \in 1..Len(vec) |-> add(@[i], vec[i])]]

\* the loop over enumerate(self.otu), from column i on
RECURSIVE group_loop(_, _, _, _, _)
group_loop(t, otu_tax, tax_rank, i, tax_data) ==
    IF i > Len(t.col_tag) THEN Returned(tax_data)
    ELSE LET entry == dict_getitem(otu_tax, t.col_tag[i])
         IN  IF entry.exc # "none" THEN Raised(entry.exc)
             ELSE LET tax == get_taxon_by_rank(entry.val.taxonomy, tax_rank)
                  IN  IF tax.exc # "none" THEN Raised(tax.exc)
                      ELSE IF ~taxon_bool(tax.val)
                      THEN group_loop(t, otu_tax, tax_rank, i + 1, tax_data)
                      ELSE group_loop(t, otu_tax, tax_rank, i + 1,
                              accumulate(tax_data,
                                         unique_taxon_name(tax.val),
                                         column(t.data, i)))

stack_columns_hstack(tax_data, nrow) ==
    IF tax_data.keys = <<>> THEN Raised("ValueError")
    ELSE Returned([i \in 1..nrow |->
                     [k \in 1..Len(tax_data.keys) |-> tax_data.vals[k][i]]])

\* data = numpy.empty((nrow, len(col_tag))); data[:, i] = tax_data[k]
stack_columns(tax_data, nrow) ==
    Returned([i \in 1..nrow |->
                 [k \in 1..Len(tax_data.keys) |-> tax_data.vals[k][i]]])

\* the outcomes of group_by_taxonomy(otu_tax, tax_rank)
group_by_taxonomy(t, otu_tax, tax_rank, n) ==
    LET nrow == Len(t.data)
        tax_data == group_loop(t, otu_tax, tax_rank, 1,
                               [keys |-> <<>>, vals |-> <<>>])
    IN  IF tax_data.exc # "none" THEN {Raised(tax_data.exc)}
        ELSE LET data == stack_columns(tax_data.val, nrow)
             IN  IF data.exc # "none" THEN {Raised(data.exc)}
                 ELSE LET new == TaggedTable("TaggedTable", n,
                                     t.row_tag, t.row_tag_id,
                                     tax_data.val.keys, n + 1,
                                     data.val, n + 2)
                      IN  IF new.exc # "none" THEN {Raised(new.exc)}
                          ELSE sort_cols_descend(new.val, "by_average", TRUE, n)

\* a call of group_by_taxonomy with the given keyword arguments: a keyword
\* that is no parameter of the method raises TypeError before its body runs
group_by_taxonomy_call(t, otu_tax, tax_rank, keywords, n) ==
    IF ~(keywords \subseteq {"otu_tax_dict", "tax_rank"})
    THEN {Raised("TypeError")}
    ELSE group_by_taxonomy(t, otu_tax, tax_rank, n)

(***************************************************************************)
(* Inputs of the lineage and taxon specifications                          *)
(***************************************************************************)
\* segments a lineage str is made of: classified taxa, "uncultured" ones, an
\* empty name, a name with brackets in it, a bootstrap written with a leading
\* zero, an empty segment and one that is no name(int)
SegmentPool ==
    { <<"A", "(", "1", "0", "0", ")">>,
      <<"B", "(", "8", "5", ")">>,
      Str_uncultured \o <<"(", "8", "0", ")">>,
      <<"(", "1", "0", "0", ")">>,
      <<"a", "(", "1", ")", "(", "2", ")">>,
      <<"A", "(", "0", "7", ")">>,
      Str_empty,
      <<"A">> }

\* every sequence of at most n segments
RECURSIVE SegmentSeqs(_)
SegmentSeqs(n) ==
    IF n = 0 THEN { <<>> }
    ELSE LET shorter == SegmentSeqs(n - 1)
         IN  shorter \cup
             { Append(q, g) : q \in {x \in shorter : Len(x) = n - 1},
                              g \in SegmentPool }

\* the segments of q, each followed by ";"
RECURSIVE Terminated(_)
Terminated(q) ==
    IF q = <<>> THEN <<>> ELSE q[1] \o <<";">> \o Terminated(Tail(q))

LineageInputs == { Terminated(q) : q \in SegmentSeqs(MaxSegs) }

\* rank arguments: the ids 0..6, the seven names, a name that is no rank and
\* an argument that is neither an int nor a str
RankArgs ==
    { IntRank(n) : n \in 0..(Len(RANK) - 1) }
        \cup { StrRank(RANK[i]) : i \in 1..Len(RANK) }
        \cup { StrRank(<<"g", "e", "n", "e", "r", "a">>), [type |-> "float"] }

TaxonNames == { Str_empty, <<"A">>, Str_uncultured }

UniqueNameArgs == { Str_empty, <<"A">>, <<"A", "_", "x">>, Str_unknown }

Idle == [call |-> "none"]

(***************************************************************************)
(* Taxon specification: one MothurTaxonomy and the calls of                *)
(* set_unique_taxon_name on it                                             *)
(***************************************************************************)
InitTaxon ==
    /\ taxon \in { MothurTaxonomy(n, 100) : n \in TaxonNames }
    /\ calls = <<>>
    /\ s = Str_empty
    /\ lineage = <<>>
    /\ pc = "start"
    /\ ret = NoValue
    /\ exc = "none"
    /\ op = Idle
    /\ self = NoValue
    /\ otu_tax_dict = <<>>
    /\ next_id = 0
    /\ steps = 0
    /\ reordered = NoValue

SetUniqueTaxonName(str) ==
    /\ Len(calls) < MaxCalls
    /\ taxon' = set_unique_taxon_name(taxon, str)
    /\ calls' = Append(calls, str)
    /\ pc' = "set_unique_taxon_name"
    /\ ret' = NoValue
    /\ exc' = "none"
    /\ op' = [call |-> "set_unique_taxon_name", s |-> str]
    /\ UNCHANGED <<reordered, s, lineage, self, otu_tax_dict, next_id, steps>>

NextTaxon == \E str \in UniqueNameArgs : SetUniqueTaxonName(str)

SpecTaxon == InitTaxon /\ [][NextTaxon]_vars

(***************************************************************************)
(* Lineage specification: MothurLineage.from_str(s), then lookups, to_str  *)
(* and set_unique_taxon_names on the lineage                               *)
(***************************************************************************)
InitLineage ==
    /\ s \in LineageInputs
    /\ lineage = <<>>
    /\ pc = "start"
    /\ ret = NoValue
    /\ exc = "none"
    /\ op = Idle
    /\ taxon = NoValue
    /\ calls = <<>>
    /\ self = NoValue
    /\ otu_tax_dict = <<>>
    /\ next_id = 0
    /\ steps = 0
    /\ reordered = NoValue

Parsed == pc \notin {"start", "failed"}

FromStr ==
    /\ pc = "start"
    /\ LET r == MothurLineage_from_str(s)
       IN  /\ exc' = r.exc
           /\ lineage' = IF r.exc = "none" THEN r.val ELSE lineage
           /\ pc' = IF r.exc = "none" THEN "from_str" ELSE "failed"
    /\ ret' = NoValue
    /\ op' = [call |-> "from_str"]
    /\ UNCHANGED <<reordered, s, taxon, calls, self, otu_tax_dict, next_id, steps>>

ToStr ==
    /\ Parsed
    /\ ret' = MothurLineage_to_str(lineage)
    /\ exc' = "none"
    /\ pc' = "to_str"
    /\ op' = [call |-> "to_str"]
    /\ UNCHANGED <<reordered, s, lineage, taxon, calls, self, otu_tax_dict, next_id, steps>>

GetTaxonByRank(rank) ==
    /\ Parsed
    /\ LET r == get_taxon_by_rank(lineage, rank)
       IN  /\ exc' = r.exc
           /\ ret' = r.val
    /\ pc' = "get_taxon_by_rank"
    /\ op' = [call |-> "get_taxon_by_rank", rank |-> rank]
    /\ UNCHANGED <<reordered, s, lineage, taxon, calls, self, otu_tax_dict, next_id, steps>>

SetUniqueTaxonNames ==
    /\ Parsed
    /\ LET r == set_unique_taxon_names(lineage, 0, None)
       IN  /\ exc' = r.exc
           /\ lineage' = IF r.exc = "none" THEN r.val ELSE lineage
    /\ ret' = NoValue
    /\ pc' = "set_unique_taxon_names"
    /\ op' = [call |-> "set_unique_taxon_names"]
    /\ UNCHANGED <<reordered, s, taxon, calls, self, otu_tax_dict, next_id, steps>>

NextLineage ==
    \/ FromStr
    \/ ToStr
    \/ \E rank \in RankArgs : GetTaxonByRank(rank)
    \/ SetUniqueTaxonNames

SpecLineage == InitLineage /\ [][NextLineage]_vars

(***************************************************************************)
(* Table specification: a count table as MothurSharedTable.from_file       *)
(* builds it, a taxonomy reference as MothurOtuTaxonomyDict.from_file      *)
(* builds it, and the calls of normalize_rows, sort_cols_descend and       *)
(* group_by_taxonomy on the table and of the command line's main           *)
(***************************************************************************)
\* the OTU columns and the groups (rows) a shared file may hold, and the
\* counts in its cells
OtuNames == << <<"O", "t", "u", "1">>, <<"O", "t", "u", "2">>,
               <<"O", "t", "u", "3">> >>

GroupNames == << <<"S", "1">>, <<"S", "2">> >>

Counts == {0, 1}

OtuId(j) == OtuNames[j]

GroupId(i) == GroupNames[i]

\* the lineage column of the taxonomy file: a phylum of bootstrap 85, an
\* "uncultured" phylum of bootstrap 90, and a phylum with an empty name; none
\* is classified below the phylum
TableLineages ==
    { <<"A", "(", "1", "0", "0", ")", ";", "B", "(", "8", "5", ")", ";">>,
      <<"A", "(", "1", "0", "0", ")", ";">> \o Str_uncultured
            \o <<"(", "9", "0", ")", ";">>,
      <<"C", "(", "1", "0", "0", ")", ";", "(", "6", "0", ")", ";">> }

\* MothurOtuTaxonomyDict.from_file: one MothurOtuTaxonomy per line
TaxonomyDicts(ncol) ==
    UNION { [ {OtuId(j) : j \in present} -> TableLineages ]
                : present \in SUBSET (1..ncol) }

ParsedDict(lines) ==
    [o \in DOMAIN lines |->
        MothurOtuTaxonomy(o, 1, MothurLineage_from_str(lines[o]).val)]

TableRankArgs ==
    { StrRank(RANK[1]), StrRank(RANK[2]), StrRank(RANK[7]), IntRank(1),
      StrRank(<<"g", "e", "n", "e", "r", "a">>) }

SortMethods == {"by_average", "by_rank", "by_median"}

\* --tax-rank (its default is genus) and --min-bootstrap
MainRanks == {RANK[2], RANK[6]}

MinBootstraps == {0, 90}

\* identities one call may hand out
IdsPerCall == 12

InitTable ==
    /\ \E nrow \in 1..Len(GroupNames), ncol \in 0..Len(OtuNames) :
        /\ \E counts \in [1..nrow -> [1..ncol -> Counts]] :
              self = MothurSharedTable(1,
                        [i \in 1..nrow |-> <<"0", ".", "0", "3">>],
                        [i \in 1..nrow |-> GroupId(i)],
                        [i \in 1..nrow |-> ncol],
                        [j \in 1..ncol |-> OtuId(j)],
                        [i \in 1..nrow |->
                            [j \in 1..ncol |-> Number(counts[i][j])]]).val
        /\ \E lines \in TaxonomyDicts(ncol) : otu_tax_dict = ParsedDict(lines)
    /\ next_id = 5
    /\ steps = 0
    /\ reordered = NoValue
    /\ pc = "start"
    /\ ret = NoValue
    /\ exc = "none"
    /\ op = Idle
    /\ s = Str_empty
    /\ lineage = <<>>
    /\ taxon = NoValue
    /\ calls = <<>>

Called(name, arguments) ==
    /\ steps < MaxOps
    /\ steps' = steps + 1
    /\ next_id' = next_id + IdsPerCall
    /\ pc' = name
    /\ op' = arguments
    /\ UNCHANGED <<reordered, s, lineage, taxon, calls>>

NormalizeRows(inplace) ==
    /\ Called("normalize_rows", [call |-> "normalize_rows", inplace |-> inplace])
    /\ LET r == normalize_rows(self, inplace, next_id)
       IN  /\ ret' = r
           /\ exc' = "none"
           /\ self' = IF r.id = self.id THEN r ELSE self
    /\ UNCHANGED otu_tax_dict

SortColsDescend(method, inplace) ==
    /\ Called("sort_cols_descend",
              [call |-> "sort_cols_descend", method |-> method,
               inplace |-> inplace])
    /\ \E r \in sort_cols_descend(self, method, inplace, next_id) :
           /\ ret' = r.val
           /\ exc' = r.exc
           /\ self' = IF r.exc = "none" /\ r.val.id = self.id THEN r.val
                      ELSE self
    /\ UNCHANGED otu_tax_dict

GroupByTaxonomy(tax_rank) ==
    /\ Called("group_by_taxonomy",
              [call |-> "group_by_taxonomy", tax_rank |-> tax_rank])
    /\ \E r \in group_by_taxonomy_call(self, otu_tax_dict, tax_rank,
                                       {"tax_rank"}, next_id) :
           /\ ret' = r.val
           /\ exc' = r.exc
    /\ UNCHANGED <<self, otu_tax_dict>>

\* main of get_mothur_taxonomy_abundance.py: otu_abund is the normalised
\* copy, tax_abund the table that is saved
Main(tax_rank, min_bootstrap) ==
    /\ Called("main", [call |-> "main", tax_rank |-> tax_rank,
                       min_bootstrap |-> min_bootstrap])
    /\ LET otu_abund == normalize_rows(self, FALSE, next_id)
       IN  \E tax_abund \in group_by_taxonomy_call(otu_abund, otu_tax_dict,
                                tax_rank, {"tax_rank", "min_bootstrap"},
                                next_id + 6) :
               /\ ret' = tax_abund.val
               /\ exc' = tax_abund.exc
    /\ UNCHANGED <<self, otu_tax_dict>>

NextTable ==
    \/ \E inplace \in BOOLEAN : NormalizeRows(inplace)
    \/ \E method \in SortMethods, inplace \in BOOLEAN :
            SortColsDescend(method, inplace)
    \/ \E tax_rank \in TableRankArgs : GroupByTaxonomy(tax_rank)
    \/ \E tax_rank \in MainRanks, min_bootstrap \in MinBootstraps :
            Main(StrRank(tax_rank), min_bootstrap)

SpecTable == InitTable /\ [][NextTable]_vars

(***************************************************************************)
(* Construction specification: a call of TaggedTable(...) or of            *)
(* MothurSharedTable(...) with tags and data of any lengths, then the      *)
(* calls of the table specification on the table it built                  *)
(***************************************************************************)
\* the data argument: a numpy array of nrow rows and ncol columns
DataOf(nrow, ncol) ==
    [i \in 1..nrow |-> [j \in 1..ncol |-> Number((i + j) % 2)]]

TagLengths == 0..Len(GroupNames)

InitConstruct ==
    /\ self = NoValue
    /\ \E lines \in [ {OtuId(j) : j \in 1..Len(OtuNames)} -> TableLineages ] :
            otu_tax_dict = ParsedDict(lines)
    /\ next_id = 1
    /\ steps = 0
    /\ reordered = NoValue
    /\ pc = "start"
    /\ ret = NoValue
    /\ exc = "none"
    /\ op = Idle
    /\ s = Str_empty
    /\ lineage = <<>>
    /\ taxon = NoValue
    /\ calls = <<>>

\* TaggedTable(row_tag = ..., col_tag = ..., data = ...)
ConstructTaggedTable(nrow_tag, ncol_tag, shape) ==
    /\ pc = "start"
    /\ LET r == TaggedTable("TaggedTable", next_id,
                    [i \in 1..nrow_tag |-> GroupId(i)], next_id + 1,
                    [j \in 1..ncol_tag |-> OtuId(j)], next_id + 2,
                    DataOf(shape[1], shape[2]), next_id + 3)
       IN  /\ exc' = r.exc
           /\ ret' = r.val
           /\ self' = r.val
    /\ pc' = "__init__"
    /\ op' = [call |-> "__init__", cls |-> "TaggedTable",
              nrow_tag |-> nrow_tag, ncol_tag |-> ncol_tag, shape |-> shape]
    /\ next_id' = next_id + IdsPerCall
    /\ UNCHANGED <<reordered, s, lineage, taxon, calls, otu_tax_dict, steps>>

\* MothurSharedTable(label = ..., group = ..., num_otus = ..., otu = ...,
\* data = ...)
ConstructMothurSharedTable(nlabel, nrow_tag, nnum_otus, ncol_tag, shape) ==
    /\ pc = "start"
    /\ LET r == MothurSharedTable(next_id,
                    [i \in 1..nlabel |-> <<"0", ".", "0", "3">>],
                    [i \in 1..nrow_tag |-> GroupId(i)],
                    [i \in 1..nnum_otus |-> ncol_tag],
                    [j \in 1..ncol_tag |-> OtuId(j)],
                    DataOf(shape[1], shape[2]))
       IN  /\ exc' = r.exc
           /\ ret' = r.val
           /\ self' = r.val
    /\ pc' = "__init__"
    /\ op' = [call |-> "__init__", cls |-> "MothurSharedTable",
              nrow_tag |-> nrow_tag, ncol_tag |-> ncol_tag, shape |-> shape]
    /\ next_id' = next_id + IdsPerCall
    /\ UNCHANGED <<reordered, s, lineage, taxon, calls, otu_tax_dict, steps>>

\* the calls on the table built; group_by_taxonomy is a method of
\* MothurSharedTable only
NextConstruct ==
    \/ \E nrow_tag \in TagLengths, ncol_tag \in 0..Len(OtuNames),
          shape \in TagLengths \X (0..Len(OtuNames)) :
            ConstructTaggedTable(nrow_tag, ncol_tag, shape)
    \/ \E nlabel \in TagLengths, nrow_tag \in TagLengths,
          nnum_otus \in TagLengths, ncol_tag \in 0..Len(OtuNames),
          shape \in TagLengths \X (0..Len(OtuNames)) :
            ConstructMothurSharedTable(nlabel, nrow_tag, nnum_otus, ncol_tag,
                                       shape)
    \/ /\ self # NoValue
       /\ \E inplace \in BOOLEAN : NormalizeRows(inplace)
    \/ /\ self # NoValue
       /\ \E method \in SortMethods, inplace \in BOOLEAN :
            SortColsDescend(method, inplace)
    \/ /\ self # NoValue
       /\ self.cls = "MothurSharedTable"
       /\ \E tax_rank \in TableRankArgs : GroupByTaxonomy(tax_rank)

SpecConstruct == InitConstruct /\ [][NextConstruct]_vars

(***************************************************************************)
(* Abundance specification: the calls main makes on the count table,       *)
(* otu_abund = otu_count.normalize_rows() and then                         *)
(* otu_abund.group_by_taxonomy(taxonomy, tax_rank), and group_by_taxonomy  *)
(* on the counts themselves                                                *)
(***************************************************************************)
\* otu_abund = otu_count.normalize_rows(): the calls that follow are made on
\* the normalised copy
OtuAbund ==
    /\ pc = "start"
    /\ LET r == normalize_rows(self, FALSE, next_id)
       IN  /\ ret' = r
           /\ self' = r
    /\ exc' = "none"
    /\ pc' = "normalize_rows"
    /\ op' = [call |-> "normalize_rows", inplace |-> FALSE]
    /\ steps' = steps + 1
    /\ next_id' = next_id + IdsPerCall
    /\ UNCHANGED <<reordered, s, lineage, taxon, calls, otu_tax_dict>>

\* tax_abund = self.group_by_taxonomy(taxonomy, tax_rank)
TaxAbund(tax_rank) ==
    /\ pc \in {"start", "normalize_rows"}
    /\ \E r \in group_by_taxonomy_call(self, otu_tax_dict, tax_rank,
                                       {"tax_rank"}, next_id) :
           /\ ret' = r.val
           /\ exc' = r.exc
    /\ pc' = "group_by_taxonomy"
    /\ op' = [call |-> "group_by_taxonomy", tax_rank |-> tax_rank,
              normalized |-> (pc = "normalize_rows")]
    /\ steps' = steps + 1
    /\ next_id' = next_id + IdsPerCall
    /\ UNCHANGED <<reordered, s, lineage, taxon, calls, self, otu_tax_dict>>

NextAbundance ==
    \/ OtuAbund
    \/ \E tax_rank \in TableRankArgs : TaxAbund(tax_rank)

SpecAbundance == InitTable /\ [][NextAbundance]_vars

(***************************************************************************)
(* Reorder specification: group_by_taxonomy on a count table, raw or       *)
(* normalised, and on the table of the same shared file with its OTU       *)
(* columns in another order                                                *)
(***************************************************************************)
\* the counts of a shared file of one group
LargeCounts == 0..3

InitReorder ==
    /\ \E nrow \in 1..Len(GroupNames), ncol \in 0..Len(OtuNames) :
        /\ \E counts \in [1..nrow -> [1..ncol ->
                            IF nrow = 1 THEN LargeCounts ELSE Counts]] :
              self = MothurSharedTable(1,
                        [i \in 1..nrow |-> <<"0", ".", "0", "3">>],
                        [i \in 1..nrow |-> GroupId(i)],
                        [i \in 1..nrow |-> ncol],
                        [j \in 1..ncol |-> OtuId(j)],
                        [i \in 1..nrow |->
                            [j \in 1..ncol |-> Number(counts[i][j])]]).val
        /\ \E lines \in [ {OtuId(j) : j \in 1..ncol} -> TableLineages ] :
              otu_tax_dict = ParsedDict(lines)
    /\ next_id = 5
    /\ steps = 0
    /\ reordered = NoValue
    /\ pc = "start"
    /\ ret = NoValue
    /\ exc = "none"
    /\ op = Idle
    /\ s = Str_empty
    /\ lineage = <<>>
    /\ taxon = NoValue
    /\ calls = <<>>

\* the table of the shared file whose OTU columns are those of t in the order
\* idx: the header and every row are permuted alike
reorder(t, idx, n) ==
    [t EXCEPT !.id = n, !.row_tag_id = n + 1,
              !.col_tag = take(t.col_tag, idx), !.col_tag_id = n + 2,
              !.data = take_columns(t.data, idx), !.data_id = n + 3]

\* group_by_taxonomy at the same rank, with the same taxonomy reference, on
\* the reordered table
TaxAbundReordered(idx) ==
    /\ pc = "group_by_taxonomy"
    /\ \E r \in group_by_taxonomy_call(reorder(self, idx, next_id),
                        otu_tax_dict, op.tax_rank, {"tax_rank"}, next_id + 4) :
           reordered' = [exc |-> r.exc, val |-> r.val, idx |-> idx]
    /\ pc' = "reordered"
    /\ steps' = steps + 1
    /\ next_id' = next_id + IdsPerCall
    /\ UNCHANGED <<s, lineage, taxon, calls, self, otu_tax_dict, ret, exc, op>>

NextReorder ==
    \/ OtuAbund
    \/ \E tax_rank \in TableRankArgs : TaxAbund(tax_rank)
    \/ \E idx \in IndexArrays(Len(self.col_tag)) : TaxAbundReordered(idx)

SpecReorder == InitReorder /\ [][NextReorder]_vars

(***************************************************************************)
(* Claims about taxa and lineages                                          *)
(***************************************************************************)
Last(q) == q[Len(q)]

Max(S) == CHOOSE x \in S : \A y \in S : y <= x

\* C5: a lookup by a rank id 0..6 or by one of the seven rank names returns
\* the taxon stored at that rank when the rank is below the lineage's depth
\* and None when it is not; it never raises.
RankIsValid(rank) ==
    \/ rank.type = "int" /\ rank.id \in 0..6
    \/ rank.type = "str" /\ \E i \in 1..7 : RANK[i] = rank.name

RankPosition(rank) ==
    IF rank.type = "int" THEN rank.id + 1
    ELSE CHOOSE i \in 1..7 : RANK[i] = rank.name

C5_LookupByRank ==
    (pc = "get_taxon_by_rank" /\ RankIsValid(op.rank)) =>
        /\ exc = "none"
        /\ IF RankPosition(op.rank) <= Len(lineage)
           THEN ret = lineage[RankPosition(op.rank)]
           ELSE ret = NoValue

C5_Witness ==
    /\ pc = "get_taxon_by_rank"
    /\ op.rank.type = "str"
    /\ Len(lineage) = 2
    /\ RankPosition(op.rank) = 3
    /\ exc = "none"
    /\ ret = NoValue

\* C6 as claimed: after from_str every taxon whose raw name starts with
\* "uncultured" is resolved to L_<rank>, L the raw name of the nearest earlier
\* taxon not starting with "uncultured", or to "unknown" when there is none;
\* every other taxon is resolved to its raw name.
RawName(i) == lineage[i].taxon_name

KnownBefore(i) ==
    {j \in 1..(i - 1) : ~startswith(RawName(j), Str_uncultured)}

ClaimedName(i) ==
    IF startswith(RawName(i), Str_uncultured)
    THEN IF KnownBefore(i) = {} THEN Str_unknown
         ELSE RawName(Max(KnownBefore(i))) \o <<"_">> \o RANK[i]
    ELSE RawName(i)

NoEmptyUpTo(i) == \A j \in 1..i : RawName(j) # Str_empty

SegmentOpen(seg) ==
    {i \in 1..(Len(seg) - 2) :
        /\ seg[i] = "("
        /\ \A j \in (i + 1)..(Len(seg) - 1) : IsDigit(seg[j])
        /\ \A j \in 1..(i - 1) : seg[j] # ";"}

SegmentIsValid(seg) ==
    /\ Len(seg) >= 3
    /\ seg[Len(seg)] = ")"
    /\ SegmentOpen(seg) # {}

\* the int is written without a superfluous leading zero
SegmentIsCanonical(seg) ==
    /\ SegmentIsValid(seg)
    /\ \A i \in SegmentOpen(seg) : i + 1 = Len(seg) - 1 \/ seg[i + 1] # "0"

WellFormed(str) ==
    \E q \in SegmentSeqs(MaxSegs) :
        /\ q # <<>>
        /\ str = Terminated(q)
        /\ \A i \in 1..Len(q) : SegmentIsValid(q[i])

WellFormedCanonical(str) ==
    \E q \in SegmentSeqs(MaxSegs) :
        /\ q # <<>>
        /\ str = Terminated(q)
        /\ \A i \in 1..Len(q) : SegmentIsCanonical(q[i])

C7_AsClaimed == (pc = "to_str" /\ WellFormed(s)) => ret = s

\* C7 amended: the round trip holds when, in addition, every int of s is
\* written without leading zeros.
C7_RoundTrip == (pc = "to_str" /\ WellFormedCanonical(s)) => ret = s

C7_Witness ==
    /\ pc = "to_str"
    /\ WellFormedCanonical(s)
    /\ Len(lineage) = 3
    /\ \E i \in 1..3 : lineage[i]._uniq_name # None
    /\ ret = s

\* C9 as claimed: the resolved name is the raw name before any call of
\* set_unique_taxon_name and the argument of the last call after one; the
\* calls never fail.
C9_AsClaimed ==
    /\ exc = "none"
    /\ calls = <<>> => unique_taxon_name(taxon) = taxon.taxon_name
    /\ calls # <<>> => unique_taxon_name(taxon) = Last(calls)

\* C9 amended: the resolved name is the raw name before any call; after one
\* it is the argument of the last call when that argument is not the empty
\* str, and the raw name when it is; the calls never fail.
C9_LastWriteWins ==
    /\ exc = "none"
    /\ calls = <<>> => unique_taxon_name(taxon) = taxon.taxon_name
    /\ calls # <<>> =>
          unique_taxon_name(taxon) =
              IF Last(calls) # Str_empty THEN Last(calls) ELSE taxon.taxon_name

C9_Witness ==
    /\ Len(calls) = 3
    /\ calls[1] # calls[2]
    /\ calls[2] = calls[3]
    /\ calls[3] # Str_empty
    /\ taxon.taxon_name # calls[3]
    /\ unique_taxon_name(taxon) = calls[3]

\* C14: set_unique_taxon_names called again on a lineage from_str has
\* resolved does not fail and leaves the resolved name of every taxon as it
\* was.
C14_Idempotent ==
    [][ op'.call = "set_unique_taxon_names" =>
            /\ exc' = "none"
            /\ Len(lineage') = Len(lineage)
            /\ \A i \in 1..Len(lineage) :
                  unique_taxon_name(lineage'[i]) = unique_taxon_name(lineage[i])
      ]_vars

C14_Witness ==
    /\ pc = "set_unique_taxon_names"
    /\ exc = "none"
    /\ Len(lineage) = 3
    /\ RawName(1) = Str_uncultured
    /\ RawName(2) = <<"B">>
    /\ RawName(3) = Str_uncultured
    /\ unique_taxon_name(lineage[1]) = Str_unknown
    /\ unique_taxon_name(lineage[3]) = <<"B", "_", "c", "l", "a", "s", "s">>

(***************************************************************************)
(* Claims about tables                                                     *)
(***************************************************************************)
\* the lineage of OTU column j of self and its taxon at a rank
LineageOf(j) == otu_tax_dict[self.col_tag[j]].taxonomy

Covered ==
    \A j \in 1..Len(self.col_tag) : self.col_tag[j] \in DOMAIN otu_tax_dict

\* OTU column j has a taxon at the rank, and its name is not empty
Classified(j, rank) ==
    /\ self.col_tag[j] \in DOMAIN otu_tax_dict
    /\ RankPosition(rank) <= Len(LineageOf(j))
    /\ LineageOf(j)[RankPosition(rank)].taxon_name # Str_empty

TaxonOf(j, rank) == LineageOf(j)[RankPosition(rank)]

ClassifiedOtus(rank) == {j \in 1..Len(self.col_tag) : Classified(j, rank)}

Contributors(rank, k) ==
    {j \in ClassifiedOtus(rank) : unique_taxon_name(TaxonOf(j, rank)) = k}

\* the sum of self.data[i, j] over the columns j of J
RECURSIVE SumCells(_, _)
SumCells(i, J) ==
    IF J = {} THEN Number(0)
    ELSE add(SumCells(i, J \ {Max(J)}), self.data[i][Max(J)])

Columns(t) == 1..Len(t.col_tag)

Rows(t) == 1..Len(t.data)

\* C1 as claimed: the aggregation main asks for, at rank r with threshold t,
\* yields a table whose every column name is the resolved name of an OTU
\* whose taxon at r has confidence >= t.
C1_AsClaimed ==
    pc = "main" =>
        /\ exc = "none"
        /\ \A c \in Columns(ret) :
             \E j \in ClassifiedOtus(op.tax_rank) :
                /\ unique_taxon_name(TaxonOf(j, op.tax_rank)) = ret.col_tag[c]
                /\ TaxonOf(j, op.tax_rank).bootstrap >= op.min_bootstrap

\* C2: with every OTU of the table in the taxonomy reference,
\* group_by_taxonomy at a rank returns a table with the receiver's row tags,
\* whose column tags are pairwise distinct and are exactly the resolved names
\* of the OTUs classified at the rank, and whose cell [i, k] is the sum of the
\* receiver's cells [i, j] over the OTUs j resolved to k.
C2_GroupSums ==
    (pc = "group_by_taxonomy" /\ RankIsValid(op.tax_rank) /\ Covered) =>
        /\ exc = "none"
        /\ ret.row_tag = self.row_tag
        /\ Len(ret.data) = Len(self.data)
        /\ \A c, e \in Columns(ret) : c # e => ret.col_tag[c] # ret.col_tag[e]
        /\ {ret.col_tag[c] : c \in Columns(ret)} =
              {unique_taxon_name(TaxonOf(j, op.tax_rank)) :
                    j \in ClassifiedOtus(op.tax_rank)}
        /\ \A i \in Rows(ret) :
              /\ Len(ret.data[i]) = Len(ret.col_tag)
              /\ \A c \in Columns(ret) :
                    ret.data[i][c] =
                        SumCells(i, Contributors(op.tax_rank, ret.col_tag[c]))

C2_Witness ==
    /\ pc = "group_by_taxonomy"
    /\ RankIsValid(op.tax_rank)
    /\ exc = "none"
    /\ Covered
    /\ Len(self.col_tag) = 3
    /\ Len(ret.col_tag) = 2
    /\ \E c \in Columns(ret) :
          /\ Cardinality(Contributors(op.tax_rank, ret.col_tag[c])) = 2
          /\ \E i \in Rows(ret) : ret.data[i][c] = Number(2)

\* C3: when an OTU of the table has no entry in the taxonomy reference,
\* group_by_taxonomy at a rank raises KeyError and returns nothing, wherever
\* that OTU's column is.
C3_MissingOtuFails ==
    (pc = "group_by_taxonomy" /\ RankIsValid(op.tax_rank) /\ ~Covered) =>
        /\ exc = "KeyError"
        /\ ret = NoValue

C3_Witness ==
    /\ pc = "group_by_taxonomy"
    /\ RankIsValid(op.tax_rank)
    /\ Len(self.col_tag) = 3
    /\ self.col_tag[3] \notin DOMAIN otu_tax_dict
    /\ Classified(1, op.tax_rank)
    /\ Classified(2, op.tax_rank)
    /\ exc = "KeyError"

\* C4: when no OTU of the table is classified at the rank, group_by_taxonomy
\* returns, without an exception, a table with no column and the receiver's
\* row tags.
C4_NoColumns ==
    (pc = "group_by_taxonomy" /\ RankIsValid(op.tax_rank) /\ Covered
        /\ ClassifiedOtus(op.tax_rank) = {}) =>
        /\ exc = "none"
        /\ ret.col_tag = <<>>
        /\ ret.row_tag = self.row_tag
        /\ Len(ret.data) = Len(self.data)
        /\ \A i \in Rows(ret) : ret.data[i] = <<>>

C4_Witness ==
    /\ pc = "group_by_taxonomy"
    /\ op.tax_rank = StrRank(RANK[7])
    /\ Covered
    /\ Len(self.col_tag) = 3
    /\ \A j \in 1..3 : Len(LineageOf(j)) = 2
    /\ exc = "none"
    /\ ret.col_tag = <<>>
    /\ Len(ret.data) = 2

\* C8 as claimed: sort_cols_descend with method "by_rank" returns the columns
\* in descending order of their average rank, the rank of a cell in its row
\* being higher the higher its value, ties in input order.
RankInRow(row, j) ==
    1 + Cardinality({k \in 1..Len(row) :
                        less(row[k], row[j]) \/ (row[k] = row[j] /\ k < j)})

RankSum(data, j) ==
    LET R[i \in 0..Len(data)] ==
            IF i = 0 THEN 0 ELSE R[i - 1] + RankInRow(data[i], j)
    IN  R[Len(data)]

C8_AsClaimed ==
    (pc = "sort_cols_descend" /\ op.method = "by_rank") =>
        /\ exc = "none"
        /\ ~op.inplace =>
              \E idx \in IndexArrays(Len(self.col_tag)) :
                  /\ ret.col_tag = take(self.col_tag, idx)
                  /\ ret.data = take_columns(self.data, idx)
                  /\ \A c \in 1..(Len(idx) - 1) :
                        RankSum(self.data, idx[c])
                            >= RankSum(self.data, idx[c + 1])

\* C10: normalize_rows and sort_cols_descend without inplace, and
\* group_by_taxonomy, leave the receiver and the taxonomy reference as they
\* were and return another object; the receiver changes only in a call with
\* inplace = True, and such a call returns the receiver.
CopyingCall(o) ==
    \/ o.call \in {"normalize_rows", "sort_cols_descend"} /\ ~o.inplace
    \/ o.call = "group_by_taxonomy"

InplaceCall(o) ==
    o.call \in {"normalize_rows", "sort_cols_descend"} /\ o.inplace

C10_CopySemantics ==
    [][ /\ CopyingCall(op') =>
            /\ self' = self
            /\ otu_tax_dict' = otu_tax_dict
            /\ exc' = "none" => ret'.id # self.id
        /\ self' # self => InplaceCall(op')
        /\ (InplaceCall(op') /\ exc' = "none") =>
            /\ ret' = self'
            /\ ret'.id = self.id ]_vars

C10_Witness ==
    /\ pc = "normalize_rows"
    /\ ~op.inplace
    /\ ret.id # self.id
    /\ ret.row_tag = self.row_tag
    /\ ret.data # self.data
    /\ \E i \in Rows(self), j \in Columns(self) :
          self.data[i][j] = Number(1)
             /\ ret.data[i][j] = true_divide(Number(1), Number(2))


\* C11 as claimed: the construction of a TaggedTable or MothurSharedTable
\* fails with the shape-mismatch error (ValueError) whenever the number of row
\* tags differs from the number of data rows or the number of column tags
\* differs from the number of data columns; and every table that exists after
\* construction, normalize_rows, sort_cols_descend and group_by_taxonomy has
\* as many row tags as data rows and as many column tags as data columns.
ShapeHolds(t) ==
    /\ Len(t.row_tag) = Len(t.data)
    /\ \A i \in 1..Len(t.data) : Len(t.data[i]) = Len(t.col_tag)

ShapeMismatch(o) == o.nrow_tag # o.shape[1] \/ o.ncol_tag # o.shape[2]

C11_AsClaimed ==
    /\ (pc = "__init__" /\ ShapeMismatch(op)) => exc = "ValueError"
    /\ self # NoValue => ShapeHolds(self)
    /\ ret # NoValue => ShapeHolds(ret)

\* C12 as claimed: the table group_by_taxonomy returns has its columns in
\* descending order of their mean (mean(c) >= mean(c + 1) for adjacent
\* columns), and each column tag is still attached to the sum of the columns
\* of the OTUs resolved to it.
ColumnMean(t, c) == true_divide(sum(column(t.data, c)), Number(Len(t.data)))

\* x >= y as floats compare: false when either is NaN
GreaterEqual(x, y) == ~IsNaN(x) /\ ~IsNaN(y) /\ ~less(x, y)

TagsAttached ==
    \A c \in Columns(ret) : \A i \in Rows(ret) :
        ret.data[i][c] = SumCells(i, Contributors(op.tax_rank, ret.col_tag[c]))

C12_AsClaimed ==
    (pc = "group_by_taxonomy" /\ exc = "none") =>
        /\ \A c \in 1..(Len(ret.col_tag) - 1) :
              GreaterEqual(ColumnMean(ret, c), ColumnMean(ret, c + 1))
        /\ TagsAttached

\* C12 amended: the columns are in descending order of their mean with a NaN
\* mean before every number (for adjacent columns mean(c) is NaN or
\* mean(c) >= mean(c + 1)), and each column tag is still attached to the sum
\* of the columns of the OTUs resolved to it.
C12_SortedByMean ==
    (pc = "group_by_taxonomy" /\ exc = "none") =>
        /\ \A c \in 1..(Len(ret.col_tag) - 1) :
              \/ IsNaN(ColumnMean(ret, c))
              \/ GreaterEqual(ColumnMean(ret, c), ColumnMean(ret, c + 1))
        /\ TagsAttached

\* the sort has moved the column of a later OTU before that of an earlier one
C12_Witness ==
    /\ pc = "group_by_taxonomy"
    /\ exc = "none"
    /\ op.normalized
    /\ RankIsValid(op.tax_rank)
    /\ Len(self.col_tag) = 3
    /\ Len(ret.col_tag) = 2
    /\ ret.col_tag[1] = unique_taxon_name(TaxonOf(3, op.tax_rank))
    /\ ret.col_tag[2] = unique_taxon_name(TaxonOf(1, op.tax_rank))
    /\ ~IsNaN(ColumnMean(ret, 2))
    /\ ~GreaterEqual(ColumnMean(ret, 2), ColumnMean(ret, 1))

\* C13 as claimed: group_by_taxonomy on the table with its OTU columns in
\* another order, at the same rank and with the same taxonomy reference,
\* yields the same set of column names and under each name the identical
\* summed column; two columns change their relative position only if their
\* means are equal.
Names(t) == {t.col_tag[c] : c \in Columns(t)}

ColumnOf(t, name) == column(t.data, IndexOf(t.col_tag, name))

SameNames == reordered.exc = "none" /\ Names(reordered.val) = Names(ret)

SameSums ==
    \A name \in Names(ret) : ColumnOf(reordered.val, name) = ColumnOf(ret, name)

SameOrderUnlessEqualMean ==
    \A c, e \in Columns(ret) :
        (c < e /\ ColumnMean(ret, c) # ColumnMean(ret, e)) =>
            IndexOf(reordered.val.col_tag, ret.col_tag[c])
                < IndexOf(reordered.val.col_tag, ret.col_tag[e])

C13_AsClaimed ==
    (pc = "reordered" /\ exc = "none") =>
        /\ SameNames
        /\ SameSums
        /\ SameOrderUnlessEqualMean

\* C13 amended: the set of column names is the same; when the table holds
\* integer counts (it has not been normalised) the summed column under each
\* name is identical, and two columns change their relative position only if
\* their means are equal.
IsCountTable(t) ==
    \A i \in Rows(t) : \A j \in 1..Len(t.data[i]) : IsInt(t.data[i][j])

C13_OrderIndependent ==
    (pc = "reordered" /\ exc = "none") =>
        /\ SameNames
        /\ IsCountTable(self) => (SameSums /\ SameOrderUnlessEqualMean)

C13_Witness ==
    /\ pc = "reordered"
    /\ exc = "none"
    /\ IsCountTable(self)
    /\ reordered.idx = <<3, 1, 2>>
    /\ self.data[1] = <<Number(1), Number(2), Number(3)>>
    /\ Len(ret.col_tag) = 2
    /\ \E c \in Columns(ret) :
          /\ Contributors(op.tax_rank, ret.col_tag[c]) = {1, 3}
          /\ ret.data[1][c] = Number(4)
    /\ reordered.val.col_tag = ret.col_tag
    /\ reordered.val.data = ret.data

=============================================================================
